---- MODULE Spec2Model ----
(***************************************************************************)
(* Model of smart_ic_app.py: the Bedrock connector ask_claude_json (prompt *)
(* assembly, model call, extraction and parsing of the JSON reply) and the *)
(* Streamlit session around it (mode, uploads, pending prompt, history).   *)
(*                                                                         *)
(* Text is a sequence of characters.  A character is a one-element string; *)
(* "LF" and "CR" stand for the line feed and the carriage return, and the  *)
(* letters S, L, C abbreviate the field names final_answer_summary,        *)
(* detailed_logic and chart_data.  Fixed literals of the program (messages,*)
(* prompt lines) are single elements holding the literal's text.           *)
(***************************************************************************)
EXTENDS Integers, Sequences, FiniteSets, TLC

\* ------------------------------------------------------------------------
\* Bounds of the exploration
\* ------------------------------------------------------------------------
MaxStrLen == 2

MaxNoiseLen == 3

MaxQueries == 2

\* ------------------------------------------------------------------------
\* Characters
\* ------------------------------------------------------------------------
LF == "LF"

CR == "CR"

QUOTE == "\""

BSLASH == "\\"

Whitespace == {" ", LF, CR}

Digits == {"1"}

\* ------------------------------------------------------------------------
\* Python str operations used by ask_claude_json
\* ------------------------------------------------------------------------
\* str.find(c): 0-based index of the first occurrence, -1 when absent
find(s, c) ==
  IF \E i \in 1..Len(s) : s[i] = c
  THEN (CHOOSE i \in 1..Len(s) : s[i] = c /\ \A j \in 1..(i - 1) : s[j] # c) - 1
  ELSE -1

\* str.rfind(c): 0-based index of the last occurrence, -1 when absent
rfind(s, c) ==
  IF \E i \in 1..Len(s) : s[i] = c
  THEN (CHOOSE i \in 1..Len(s) : s[i] = c /\ \A j \in (i + 1)..Len(s) : s[j] # c) - 1
  ELSE -1

\* one bound of a slice: negative counts from the end, then clamp to 0..len
SliceBound(n, k) ==
  LET m == IF k < 0 THEN k + n ELSE k
  IN  IF m < 0 THEN 0 ELSE IF m > n THEN n ELSE m

\* s[a:b]
Slice(s, a, b) ==
  LET lo == SliceBound(Len(s), a)
      hi == SliceBound(Len(s), b)
  IN  IF hi <= lo THEN <<>> ELSE SubSeq(s, lo + 1, hi)

\* str.replace(c, r) for a single character c and a replacement text r
RECURSIVE replace(_, _, _)
replace(s, c, r) ==
  IF s = <<>> THEN <<>>
  ELSE (IF Head(s) = c THEN r ELSE <<Head(s)>>) \o replace(Tail(s), c, r)

\* ------------------------------------------------------------------------
\* Python values: a value is [t, s]; a dict is a sequence of <<key, value>>
\* in insertion order.  A nested dict is held as its compact JSON members.
\* ------------------------------------------------------------------------
Str(s) == [t |-> "str", s |-> s]

Num(s) == [t |-> "num", s |-> s]

Obj(s) == [t |-> "obj", s |-> s]

None == [t |-> "none", s |-> <<>>]

EmptyDict == <<>>

HasKey(d, k) == \E i \in 1..Len(d) : d[i][1] = k

\* dict.get(k): the value, None when the key is absent
Get(d, k) ==
  IF HasKey(d, k) THEN d[CHOOSE i \in 1..Len(d) : d[i][1] = k][2] ELSE None

\* d[k] = v: an existing key keeps its place, a new one goes last
DictSet(d, k, v) ==
  IF HasKey(d, k)
  THEN [i \in 1..Len(d) |-> IF d[i][1] = k THEN <<k, v>> ELSE d[i]]
  ELSE Append(d, <<k, v>>)

\* compact JSON text of a value, and of the members of a dict
ValueText(v) ==
  IF v.t = "str" THEN <<QUOTE>> \o v.s \o <<QUOTE>>
  ELSE IF v.t = "obj" THEN <<"{">> \o v.s \o <<"}">>
  ELSE v.s

RECURSIVE MembersText(_)
MembersText(d) ==
  IF d = <<>> THEN <<>>
  ELSE <<QUOTE>> \o d[1][1] \o <<QUOTE, ":">> \o ValueText(d[1][2])
       \o (IF Len(d) > 1 THEN <<",">> ELSE <<>>) \o MembersText(Tail(d))

\* ------------------------------------------------------------------------
\* json.loads (strict): whitespace, strings, numbers, objects
\* ------------------------------------------------------------------------
ParseFail == [ok |-> FALSE, val |-> <<>>, pos |-> 0]

ParseOk(v, p) == [ok |-> TRUE, val |-> v, pos |-> p]

RECURSIVE SkipWs(_, _)
SkipWs(s, i) == IF i <= Len(s) /\ s[i] \in Whitespace THEN SkipWs(s, i + 1) ELSE i

\* the string whose opening quote precedes position i; raw control
\* characters and unknown escapes are errors
RECURSIVE ScanString(_, _, _)
ScanString(s, i, acc) ==
  IF i > Len(s) THEN ParseFail
  ELSE IF s[i] = QUOTE THEN ParseOk(acc, i + 1)
  ELSE IF s[i] = BSLASH THEN
         IF i + 1 > Len(s) THEN ParseFail
         ELSE IF s[i + 1] = "n" THEN ScanString(s, i + 2, Append(acc, LF))
         ELSE IF s[i + 1] \in {QUOTE, BSLASH} THEN ScanString(s, i + 2, Append(acc, s[i + 1]))
         ELSE ParseFail
  ELSE IF s[i] \in {LF, CR} THEN ParseFail
  ELSE ScanString(s, i + 1, Append(acc, s[i]))

RECURSIVE ScanNumber(_, _, _)
ScanNumber(s, i, acc) ==
  IF i <= Len(s) /\ s[i] \in Digits THEN ScanNumber(s, i + 1, Append(acc, s[i]))
  ELSE ParseOk(Num(acc), i)

RECURSIVE ScanValue(_, _)
RECURSIVE ScanMembers(_, _, _)

\* after a member's value: a closing brace ends the object, a comma leads
\* to the next key
MemberEnd(s, d, e) ==
  IF e > Len(s) THEN ParseFail
  ELSE IF s[e] = "}" THEN ParseOk(d, e + 1)
  ELSE IF s[e] = "," THEN ScanMembers(s, SkipWs(s, e + 1), d)
  ELSE ParseFail

MemberAfterValue(s, d, k, v) ==
  IF ~v.ok THEN ParseFail
  ELSE MemberEnd(s, DictSet(d, k, v.val), SkipWs(s, v.pos))

MemberAfterColon(s, d, k, c) ==
  IF c > Len(s) \/ s[c] # ":" THEN ParseFail
  ELSE MemberAfterValue(s, d, k, ScanValue(s, SkipWs(s, c + 1)))

MemberAfterKey(s, d, key) ==
  IF ~key.ok THEN ParseFail
  ELSE MemberAfterColon(s, d, key.val, SkipWs(s, key.pos))

\* the members of an object from the position of a key's opening quote
ScanMembers(s, i, d) ==
  IF i > Len(s) \/ s[i] # QUOTE THEN ParseFail
  ELSE MemberAfterKey(s, d, ScanString(s, i + 1, <<>>))

ObjectFrom(s, j) ==
  IF j > Len(s) THEN ParseFail
  ELSE IF s[j] = "}" THEN ParseOk(EmptyDict, j + 1)
  ELSE ScanMembers(s, j, EmptyDict)

\* the object whose opening brace precedes position i
ScanObject(s, i) == ObjectFrom(s, SkipWs(s, i))

StringValue(r) == IF r.ok THEN ParseOk(Str(r.val), r.pos) ELSE ParseFail

ObjectValue(r) == IF r.ok THEN ParseOk(Obj(MembersText(r.val)), r.pos) ELSE ParseFail

ScanValue(s, i) ==
  IF i > Len(s) THEN ParseFail
  ELSE IF s[i] = QUOTE THEN StringValue(ScanString(s, i + 1, <<>>))
  ELSE IF s[i] = "{" THEN ObjectValue(ScanObject(s, i + 1))
  ELSE IF s[i] \in Digits THEN ScanNumber(s, i, <<>>)
  ELSE ParseFail

\* nothing but whitespace may follow the value
WholeText(s, r) == IF r.ok /\ SkipWs(s, r.pos) > Len(s) THEN r ELSE ParseFail

LoadsFrom(s, i) ==
  IF i > Len(s) \/ s[i] # "{" THEN ParseFail
  ELSE WholeText(s, ScanObject(s, i + 1))

\* json.loads of a text that, when it parses, is an object: ok and the dict
loads(s) == LoadsFrom(s, SkipWs(s, 1))

\* ------------------------------------------------------------------------
\* Result records and outcomes of a call
\* ------------------------------------------------------------------------
SUMMARY == <<"S">>

LOGIC == <<"L">>

CHART == <<"C">>

FormatInvalidSummary == <<"Error: AI response format invalid.">>

SystemErrorSummary == <<"System Error">>

Return(v) == [tag |-> "return", value |-> v, exc |-> ""]

Raise(e) == [tag |-> "raise", value |-> <<>>, exc |-> e]

\* variant of FormatInvalidResult: the logic field carries the cleaned text
FormatInvalidResult_cleaned(raw_text) ==
  << <<SUMMARY, Str(FormatInvalidSummary)>>,
     <<LOGIC, Str(replace(replace(raw_text, LF, <<BSLASH, "n">>), CR, <<>>))>>,
     <<CHART, Obj(<<>>)>> >>

\* line 93: the dict returned when the reply holds no JSON object
FormatInvalidResult(raw_text) ==
  << <<SUMMARY, Str(FormatInvalidSummary)>>,
     <<LOGIC, Str(raw_text)>>,
     <<CHART, Obj(<<>>)>> >>

\* variant of SystemErrorResult: the summary key is misspelt
SystemErrorResult_misspelt(e) ==
  << <<<<"s">>, Str(SystemErrorSummary)>>,
     <<LOGIC, Str(<<"Technical Detail: ", e>>)>>,
     <<CHART, Obj(<<>>)>> >>

\* line 96: the dict returned by the except clause; e is str(e)
SystemErrorResult(e) ==
  << <<SUMMARY, Str(SystemErrorSummary)>>,
     <<LOGIC, Str(<<"Technical Detail: ", e>>)>>,
     <<CHART, Obj(<<>>)>> >>

\* ------------------------------------------------------------------------
\* ask_claude_json
\* ------------------------------------------------------------------------
AuditorBlock ==
  << "=== AUDITOR MODE ACTIVE (STRICT) ===",
     "1. VALIDATE DATA: Scan the 'Sales Data' and 'Plan Rules'.",
     "2. MISSING DATA CHECK: If the Plan requires a variable and it is missing, STOP.",
     "- Return JSON: {final_answer_summary: Error: Missing Data [Variable Name]., detailed_logic: , chart_data: {}}" >>

DemoBlock ==
  << "=== DEMO MODE ===",
     "Assume standard defaults if minor details are missing." >>

\* variant of safety_instruction: the test is inverted
safety_instruction_inverted(is_strict_mode) ==
  IF is_strict_mode THEN DemoBlock ELSE AuditorBlock

\* lines 33-41
safety_instruction(is_strict_mode) ==
  IF is_strict_mode THEN AuditorBlock ELSE DemoBlock

ResponseFormat ==
  << "=== RESPONSE FORMAT (CRITICAL) ===",
     "You must respond in a valid JSON object format.",
     "RULES FOR JSON SAFETY:",
     "1. Do NOT use real line breaks (newlines) inside strings.",
     "2. Escape all double quotes inside strings.",
     "3. Do not add any text outside the JSON object.",
     "Structure:",
     "final_answer_summary", "detailed_logic", "chart_data" >>

\* lines 43-70: the f-string, one element per fixed line, the arguments
\* spliced in where the template names them
BuildPrompt(sales_context, plan_rules_text, question, is_strict_mode) ==
  <<"You are an Expert Incentive Compensation Analyst.">>
  \o safety_instruction(is_strict_mode)
  \o <<"=== PLAN RULES ===">> \o plan_rules_text
  \o <<"=== SALES DATA ===">> \o sales_context
  \o <<"=== USER QUESTION ===">> \o <<question>>
  \o ResponseFormat

\* line 88: raw_text[start_idx:end_idx]
Candidate(raw_text, start_idx, end_idx) == Slice(raw_text, start_idx, end_idx)

\* line 90: newlines become the two characters \n, carriage returns go
Sanitize(json_str) == replace(replace(json_str, LF, <<BSLASH, "n">>), CR, <<>>)

\* line 91: return json.loads(json_str), or its exception
ReturnLoaded(r) == IF r.ok THEN Return(r.val) ELSE Raise("JSONDecodeError")

\* lines 87-93
ExtractBetween(raw_text, start_idx, end_idx) ==
  IF start_idx # -1 /\ end_idx # -1
  THEN ReturnLoaded(loads(Sanitize(Candidate(raw_text, start_idx, end_idx))))
  ELSE Return(FormatInvalidResult(raw_text))

\* lines 85-93: the statements of the try block that follow raw_text
ExtractJson(raw_text) ==
  ExtractBetween(raw_text, find(raw_text, "{"), rfind(raw_text, "}") + 1)

\* variant of ExceptHandler: the clause catches the errors of the call only
ExceptHandler_callErrorsOnly(o) ==
  IF o.tag = "raise" /\ o.exc \in {"InvokeError", "BodyError"}
  THEN Return(SystemErrorResult(o.exc)) ELSE o

\* lines 95-96: except Exception as e
ExceptHandler(o) ==
  IF o.tag = "raise" THEN Return(SystemErrorResult(o.exc)) ELSE o

\* lines 84-96 applied to a reply text
NormalizeResponse(raw_text) == ExceptHandler(ExtractJson(raw_text))

\* lines 80-93: env.fails names the step that fails, env.raw the reply
TryBlock(env) ==
  IF env.fails = "invoke" THEN Raise("InvokeError")
  ELSE IF env.fails = "body" THEN Raise("BodyError")
  ELSE ExtractJson(env.raw)

\* lines 25-96; the client is created outside the try statement
ask_claude_json(env) ==
  IF env.fails = "client" THEN Raise("ClientError")
  ELSE ExceptHandler(TryBlock(env))

\* ------------------------------------------------------------------------
\* Replies of the model
\* ------------------------------------------------------------------------
FENCE == "FENCE"

RECURSIVE Texts(_, _)
Texts(alphabet, n) ==
  IF n = 0 THEN {<<>>}
  ELSE LET shorter == Texts(alphabet, n - 1)
       IN  shorter \cup {Append(t, c) : t \in shorter, c \in alphabet}

OptionalMember(k, values) == {<<>>} \cup {<< <<k, v>> >> : v \in values}

ChartValues == {Obj(<<>>), Obj(MembersText(<< <<<<"A">>, Num(<<"1">>)>> >>))}

\* the objects a reply may hold: any subset of the three fields
Docs ==
  {a \o b \o c :
     a \in OptionalMember(SUMMARY, {Str(<<"x">>)}),
     b \in OptionalMember(LOGIC, {Str(t) : t \in Texts({"x", LF, CR}, MaxStrLen)}),
     c \in OptionalMember(CHART, ChartValues)}

Layouts == {"compact", "spaced", "lines"}

BreakStyles == {"escaped", "raw"}

Prefixes == {<<>>, <<"x", " ">>, <<FENCE, LF>>, <<"x", " ", FENCE, LF>>}

Suffixes == {<<>>, <<LF, FENCE>>, <<" ", "x">>}

\* the body of a JSON string literal for a content
RECURSIVE StringBody(_, _)
StringBody(content, breaks) ==
  IF content = <<>> THEN <<>>
  ELSE (IF Head(content) = LF /\ breaks = "escaped" THEN <<BSLASH, "n">>
        ELSE <<Head(content)>>) \o StringBody(Tail(content), breaks)

RenderValue(v, breaks) ==
  IF v.t = "str" THEN <<QUOTE>> \o StringBody(v.s, breaks) \o <<QUOTE>>
  ELSE ValueText(v)

RECURSIVE RenderMembers(_, _, _)
RenderMembers(d, layout, breaks) ==
  IF d = <<>> THEN <<>>
  ELSE <<QUOTE>> \o d[1][1] \o <<QUOTE, ":">>
       \o (IF layout = "spaced" THEN <<" ">> ELSE <<>>)
       \o RenderValue(d[1][2], breaks)
       \o (IF Len(d) = 1 THEN <<>>
           ELSE <<",">> \o (IF layout = "spaced" THEN <<" ">>
                            ELSE IF layout = "lines" THEN <<LF>> ELSE <<>>))
       \o RenderMembers(Tail(d), layout, breaks)

\* the JSON text of an object in a layout
RenderObject(d, layout, breaks) ==
  IF d = <<>> THEN <<"{", "}">>
  ELSE <<"{">> \o (IF layout = "lines" THEN <<LF>> ELSE <<>>)
       \o RenderMembers(d, layout, breaks)
       \o (IF layout = "lines" THEN <<LF>> ELSE <<>>) \o <<"}">>

HasBreak(d) == \E i \in 1..Len(d) : d[i][2].t = "str" /\ \E j \in 1..Len(d[i][2].s) : d[i][2].s[j] \in {LF, CR}

HasCR(d) == \E i \in 1..Len(d) : d[i][2].t = "str" /\ \E j \in 1..Len(d[i][2].s) : d[i][2].s[j] = CR

\* how a reply was made: an object in a layout between a prefix and a
\* suffix, such a text cut short, or arbitrary characters
ObjectOrigins ==
  {[kind |-> "object", doc |-> d, layout |-> l, breaks |-> b, pre |-> p, post |-> q, cut |-> 0] :
     d \in Docs, l \in Layouts, b \in BreakStyles, p \in Prefixes, q \in Suffixes}

ValidOrigin(o) ==
  /\ (o.breaks = "raw" => HasBreak(o.doc))
  /\ (o.breaks = "escaped" => ~HasCR(o.doc))
  /\ (o.doc = <<>> => o.layout = "compact")

ReplyText(o) == o.pre \o RenderObject(o.doc, o.layout, o.breaks) \o o.post

NoiseOrigin == [kind |-> "noise", doc |-> <<>>, layout |-> "compact", breaks |-> "escaped", pre |-> <<>>, post |-> <<>>, cut |-> 0]

NoiseAlphabet == {"x", " ", LF, CR, FENCE, "{", "}", QUOTE}

\* the replies of the session: a complete object, a refusal in prose, an
\* object cut short, an object lacking fields
FullDoc ==
  << <<SUMMARY, Str(<<"x">>)>>, <<LOGIC, Str(<<"x">>)>>, <<CHART, Obj(MembersText(<< <<<<"A">>, Num(<<"1">>)>> >>))>> >>

FencedReply == <<FENCE, LF>> \o RenderObject(FullDoc, "compact", "escaped") \o <<LF, FENCE>>

RefusalReply == <<"x", " ", "x">>

CutReply == <<"{", QUOTE, "S", QUOTE, ":", QUOTE, "x">>

PartialReply == RenderObject(<< <<LOGIC, Str(<<"x">>)>> >>, "compact", "escaped")

SessionReplies == {FencedReply, RefusalReply, CutReply, PartialReply}

Envs ==
  {[fails |-> f, raw |-> <<>>] : f \in {"client", "invoke", "body"}}
  \cup {[fails |-> "none", raw |-> r] : r \in SessionReplies}

\* the outcome of ask_claude_json in each environment
Outcome == [env \in Envs |-> ask_claude_json(env)]

\* ------------------------------------------------------------------------
\* Section 2: data handlers, as far as the session uses them
\* ------------------------------------------------------------------------
NoFile == "none"

NoData == <<>>

NoPrompt == "none"

get_default_plan == <<"1. Consumables (Weight 50%) ... 4. GLOBAL ELIGIBILITY: May: 99% | June: 98% | July: 97%.">>

get_demo_data == <<"REP: Jordan Doe | ID: REP-2024-X ... MONTH: JULY | Consumables: $23,100 | Capital: 41 Units | MBO: Average">>

extract_text_from_pdf(uploaded_file) == <<"page text of ", uploaded_file, LF>>

process_sales_file(uploaded_file) == <<"csv of the first 300 rows of ", uploaded_file>>

SalesFiles == {"sales.csv"}

PlanFiles == {"plan.pdf"}

Modes == {"demo", "custom"}

QuickPrompt ==
  [i \in 1..5 |->
     CASE i = 1 -> "Simulate if I sold 10 more Capital Units in May."
       [] i = 2 -> "I want to earn $5,000 in July. Suggest a strategy."
       [] i = 3 -> "Why was July payout lower than June? Show the gap."
       [] i = 4 -> "Analyze the data. Identify the Top Prescriber (Customer) by sales volume. Show the number."
       [] i = 5 -> "Look for customers with declining sales month-over-month. Who is at risk of churning?"]

ChatInputs == {"What if quota rises?"}

\* lines 193-221
current_sales_data(m, sf) ==
  IF m = "demo" THEN get_demo_data
  ELSE IF sf # NoFile THEN process_sales_file(sf) ELSE NoData

current_plan_rules(m, pf) ==
  IF m = "demo" THEN get_default_plan
  ELSE IF pf # NoFile THEN extract_text_from_pdf(pf) ELSE get_default_plan

is_strict(m) == m # "demo"

\* ------------------------------------------------------------------------
\* State
\* ------------------------------------------------------------------------
VARIABLES
  mode,        \* the radio selection
  sales_file,  \* the uploaded sales file, NoFile when none
  plan_file,   \* the uploaded plan PDF, NoFile when none
  prompt,      \* st.session_state.prompt, NoPrompt when the key is absent
  history,     \* st.session_state.history, most recent first
  lastCall,    \* the latest call of ask_claude_json: environment, arguments, request body, outcome
  nSubmitted,  \* prompts submitted so far
  nRequests,   \* calls of invoke_model so far
  nphase,      \* normalizer run: "idle" or "done"
  nraw,        \* normalizer run: the reply text
  norigin,     \* normalizer run: how the reply was made
  nout         \* normalizer run: the outcome

sessionVars == <<mode, sales_file, plan_file, prompt, history, lastCall, nSubmitted, nRequests>>

normVars == <<nphase, nraw, norigin, nout>>

vars == <<mode, sales_file, plan_file, prompt, history, lastCall, nSubmitted, nRequests, nphase, nraw, norigin, nout>>

NoCall ==
  [made |-> FALSE, env |-> [fails |-> "none", raw |-> <<>>], sales |-> <<>>, plan |-> <<>>,
   question |-> NoPrompt, strict |-> FALSE, body |-> <<>>, out |-> Return(EmptyDict)]

\* lines 182-196 after the first run of the script: demo mode, empty history
Init ==
  /\ mode = "demo"
  /\ sales_file = NoFile
  /\ plan_file = NoFile
  /\ prompt = NoPrompt
  /\ history = <<>>
  /\ lastCall = NoCall
  /\ nSubmitted = 0
  /\ nRequests = 0
  /\ nphase = "idle"
  /\ nraw = <<>>
  /\ norigin = NoiseOrigin
  /\ nout = Return(EmptyDict)

\* ------------------------------------------------------------------------
\* One run of the script (lines 174-281) after a widget event
\* ------------------------------------------------------------------------
\* line 255: history.insert(0, {"q": ..., "a": ...})
HistoryInsert(h, q, a) == <<[q |-> q, a |-> a]>> \o h

\* m, sf, pf: the widget values of this run; submitted: the prompt a button
\* or the chat input sets in this run, NoPrompt when none does
ScriptRun(m, sf, pf, submitted) ==
  LET sales   == current_sales_data(m, sf)
      plan    == current_plan_rules(m, pf)
      pending == IF submitted # NoPrompt THEN submitted ELSE prompt
  IN  /\ mode' = m
      /\ sales_file' = sf
      /\ plan_file' = pf
      /\ nSubmitted' = nSubmitted + (IF submitted # NoPrompt THEN 1 ELSE 0)
      /\ UNCHANGED normVars
      /\ IF sales = NoData \/ pending = NoPrompt
         THEN /\ prompt' = pending
              /\ UNCHANGED <<history, lastCall, nRequests>>
         ELSE \E env \in Envs :
                LET out == Outcome[env]
                IN  /\ lastCall' = [made |-> TRUE, env |-> env, sales |-> sales, plan |-> plan,
                                    question |-> pending, strict |-> is_strict(m),
                                    body |-> IF env.fails = "client" THEN <<>>
                                             ELSE BuildPrompt(sales, plan, pending, is_strict(m)),
                                    out |-> out]
                    /\ nRequests' = nRequests + (IF env.fails = "client" THEN 0 ELSE 1)
                    /\ IF out.tag = "raise"
                       THEN /\ prompt' = pending
                            /\ history' = history
                       ELSE /\ history' = HistoryInsert(history, pending, out.value)
                            /\ prompt' = NoPrompt

\* lines 233-245: one of the five quick-action buttons
ClickQuickAction ==
  /\ nSubmitted < MaxQueries
  /\ current_sales_data(mode, sales_file) # NoData
  /\ \E i \in 1..5 : ScriptRun(mode, sales_file, plan_file, QuickPrompt[i])

\* lines 247-249: the chat input
SubmitChatInput ==
  /\ nSubmitted < MaxQueries
  /\ current_sales_data(mode, sales_file) # NoData
  /\ \E user_input \in ChatInputs : ScriptRun(mode, sales_file, plan_file, user_input)

\* line 190: the radio; the uploaders exist in custom mode only
SelectMode ==
  /\ mode \in Modes
  /\ \E m \in Modes \ {mode} : ScriptRun(m, NoFile, NoFile, NoPrompt)

\* line 203
UploadSalesFile ==
  /\ mode = "custom"
  /\ \E f \in (SalesFiles \cup {NoFile}) \ {sales_file} :
       ScriptRun(mode, f, plan_file, NoPrompt)

\* line 205
UploadPlanFile ==
  /\ mode = "custom"
  /\ \E f \in (PlanFiles \cup {NoFile}) \ {plan_file} :
       ScriptRun(mode, sales_file, f, NoPrompt)

\* lines 179-180: a rerun that submits nothing
ClickAbout ==
  /\ mode \in Modes
  /\ ScriptRun(mode, sales_file, plan_file, NoPrompt)

Next ==
  \/ ClickQuickAction
  \/ SubmitChatInput
  \/ SelectMode
  \/ UploadSalesFile
  \/ UploadPlanFile
  \/ ClickAbout

Spec == Init /\ [][Next]_vars

\* ------------------------------------------------------------------------
\* The normalizer on its own: one reply at a time through lines 84-96
\* ------------------------------------------------------------------------
Receive(raw, origin) ==
  /\ nphase' = "done"
  /\ nraw' = raw
  /\ norigin' = origin
  /\ nout' = NormalizeResponse(raw)
  /\ UNCHANGED sessionVars

\* a reply holding one object
ReceiveObjectReply ==
  /\ nphase = "idle"
  /\ \E o \in ObjectOrigins :
       /\ ValidOrigin(o)
       /\ Receive(ReplyText(o), o)

\* a reply cut short inside its object (max_tokens reached)
ReceiveTruncatedReply ==
  /\ nphase = "idle"
  /\ \E o \in ObjectOrigins :
       /\ o.post = <<>>
       /\ ValidOrigin(o)
       /\ \E k \in (Len(o.pre) + 1)..(Len(ReplyText(o)) - 1) :
            Receive(SubSeq(ReplyText(o), 1, k), [o EXCEPT !.kind = "truncated", !.cut = k])

\* a reply of arbitrary characters
ReceiveNoiseReply ==
  /\ nphase = "idle"
  /\ \E t \in Texts(NoiseAlphabet, MaxNoiseLen) : Receive(t, NoiseOrigin)

\* the run is over: the locals of the call are gone
NextReply ==
  /\ nphase = "done"
  /\ nphase' = "idle"
  /\ nraw' = <<>>
  /\ norigin' = NoiseOrigin
  /\ nout' = Return(EmptyDict)
  /\ UNCHANGED sessionVars

NormNext ==
  \/ ReceiveObjectReply
  \/ ReceiveTruncatedReply
  \/ ReceiveNoiseReply
  \/ NextReply

NormSpec == Init /\ [][NormNext]_vars

\* ========================================================================
\* Properties
\* ========================================================================
Done == nphase = "done"

Returned(o) == o.tag = "return"

\* the reply has a candidate and json.loads accepts the sanitized candidate
ParsedOk(raw) ==
  /\ find(raw, "{") # -1
  /\ loads(Sanitize(Candidate(raw, find(raw, "{"), rfind(raw, "}") + 1))).ok

ThreeFields(d) == HasKey(d, SUMMARY) /\ HasKey(d, LOGIC) /\ HasKey(d, CHART)

\* a dict: pairs of a key and a value, no key twice
IsDict(d) ==
  /\ \A i \in 1..Len(d) : Len(d[i]) = 2 /\ d[i][2].t \in {"str", "num", "obj"}
  /\ \A i, j \in 1..Len(d) : d[i][1] = d[j][1] => i = j

ErrorSummaries == {Str(<<"System Error">>), Str(<<"Error: AI response format invalid.">>)}

\* C1: whatever text the model returns, lines 84-96 return a dict to the
\* caller; no parse failure leaves the function as an exception.
C1_NoParseFailurePropagates ==
  Done => Returned(nout) /\ IsDict(nout.value)

\* a reply cut short inside its object was received, its parse failed and
\* a dict came back
C1_Witness ==
  /\ Done
  /\ norigin.kind = "truncated"
  /\ ~ParsedOk(nraw)
  /\ Returned(nout)

\* C2: a reply whose candidate does not parse (here: an object cut short)
\* gives the format-error fallback: the format-error summary, the raw text
\* verbatim as logic, empty chart data.
C2_ParseFailureGivesRawTextFallback ==
  (Done /\ norigin.kind = "truncated") =>
     /\ Returned(nout)
     /\ Get(nout.value, SUMMARY) = Str(<<"Error: AI response format invalid.">>)
     /\ Get(nout.value, LOGIC) = Str(nraw)
     /\ Get(nout.value, CHART) = Obj(<<>>)

\* C3: a reply holding one well-formed JSON object, in any layout, between
\* any prefix and suffix, gives exactly the fields and values of that object.
C3_ObjectFieldsExtracted ==
  (Done /\ norigin.kind = "object" /\ norigin.breaks = "escaped") =>
     nout = Return(norigin.doc)

\* C4: a reply without an opening brace gives the fallback: the format-error
\* summary, the raw text verbatim as logic, empty chart data.
C4_NoBraceGivesFallback ==
  (Done /\ \A i \in 1..Len(nraw) : nraw[i] # "{") =>
     /\ Returned(nout)
     /\ Len(nout.value) = 3
     /\ Get(nout.value, SUMMARY) = Str(<<"Error: AI response format invalid.">>)
     /\ Get(nout.value, LOGIC) = Str(nraw)
     /\ Get(nout.value, CHART) = Obj(<<>>)

\* a reply without an opening brace, with a line break and a closing brace,
\* went through the fallback
C4_Witness ==
  /\ Done
  /\ \A i \in 1..Len(nraw) : nraw[i] # "{"
  /\ \E i \in 1..Len(nraw) : nraw[i] = LF
  /\ \E i \in 1..Len(nraw) : nraw[i] = "}"
  /\ Get(nout.value, LOGIC) = Str(nraw)

\* C5: an object with raw line breaks (LF or CR) inside a string value is
\* parsed, and the parsed strings keep those line breaks.
C5_RawBreaksParsedAndKept ==
  (Done /\ norigin.kind = "object" /\ norigin.breaks = "raw") =>
     nout = Return(norigin.doc)

\* C8: when the candidate parses, the returned dict has the three fields,
\* a field the object lacks being present with an empty default.
C8_MissingFieldsDefaulted ==
  (Done /\ ParsedOk(nraw)) =>
     /\ Returned(nout)
     /\ ThreeFields(nout.value)
     /\ \A k \in {SUMMARY, LOGIC} :
          (norigin.kind = "object" /\ ~HasKey(norigin.doc, k)) => Get(nout.value, k) = Str(<<>>)
     /\ (norigin.kind = "object" /\ ~HasKey(norigin.doc, CHART)) => Get(nout.value, CHART) = Obj(<<>>)

ContactFailed(env) == env.fails \in {"client", "invoke", "body"}

IsSystemError(o) == Returned(o) /\ Get(o.value, SUMMARY) = Str(<<"System Error">>)

\* C6: when a step of contacting the model fails (client, invoke, body),
\* the call returns the System Error dict with the exception text in the
\* logic field and empty chart data, and raises nothing; and the System
\* Error dict comes from such failures only.
C6_SystemErrorIffContactFailure ==
  lastCall.made =>
    /\ ContactFailed(lastCall.env) =>
         /\ IsSystemError(lastCall.out)
         /\ \E e \in {"ClientError", "InvokeError", "BodyError"} :
              Get(lastCall.out.value, LOGIC) = Str(<<"Technical Detail: ", e>>)
         /\ Get(lastCall.out.value, CHART) = Obj(<<>>)
    /\ IsSystemError(lastCall.out) => ContactFailed(lastCall.env)

\* the query of the latest call failed in the call of the model or by a
\* reply that holds no parseable object
FailedQuery(env) ==
  \/ env.fails \in {"invoke", "body"}
  \/ env.fails = "none" /\ env.raw \in {RefusalReply, CutReply}

Occurs(seq, block, i) ==
  /\ i + Len(block) - 1 <= Len(seq)
  /\ SubSeq(seq, i, i + Len(block) - 1) = block

Count(seq, block) == Cardinality({i \in 1..Len(seq) : Occurs(seq, block, i)})

\* C9: the request body holds exactly one instruction block, the auditor
\* block when the strict flag is set and the demo block otherwise, then in
\* this order the plan rules, the sales data, the question and the schema
\* naming the three fields.
C9_PromptAssembly ==
  (lastCall.made /\ lastCall.env.fails # "client") =>
    LET b == lastCall.body
    IN  /\ Count(b, AuditorBlock) + Count(b, DemoBlock) = 1
        /\ lastCall.strict => Occurs(b, AuditorBlock, 2)
        /\ ~lastCall.strict => Occurs(b, DemoBlock, 2)
        /\ LET p == IF lastCall.strict THEN 2 + Len(AuditorBlock) ELSE 2 + Len(DemoBlock)
                s == p + 1 + Len(lastCall.plan)
                q == s + 1 + Len(lastCall.sales)
                f == q + 2
            IN  /\ f + 9 = Len(b)
                /\ b[p] = "=== PLAN RULES ==="
                /\ SubSeq(b, p + 1, s - 1) = lastCall.plan
                /\ b[s] = "=== SALES DATA ==="
                /\ SubSeq(b, s + 1, q - 1) = lastCall.sales
                /\ b[q] = "=== USER QUESTION ==="
                /\ b[q + 1] = lastCall.question
                /\ b[f] = "=== RESPONSE FORMAT (CRITICAL) ==="
                /\ SubSeq(b, Len(b) - 2, Len(b)) = <<"final_answer_summary", "detailed_logic", "chart_data">>

\* a strict request with an uploaded plan and uploaded sales data was sent
C9_Witness ==
  /\ lastCall.made
  /\ lastCall.env.fails # "client"
  /\ lastCall.strict
  /\ lastCall.plan = extract_text_from_pdf("plan.pdf")
  /\ lastCall.sales = process_sales_file("sales.csv")
  /\ Count(lastCall.body, AuditorBlock) = 1

\* C10: between runs no prompt is pending, every submitted prompt has caused
\* one request and one history entry, and each run leaves the history as it
\* was or puts one entry in front of it.
C10_EachPromptProcessedOnce ==
  /\ [](prompt = NoPrompt /\ nRequests = nSubmitted /\ Len(history) = nSubmitted)
  /\ [][history' = history \/ Tail(history') = history]_vars
====
